---- MODULE Spec2Model ----
(***************************************************************************)
(* A model of the AgriXVision backend:                                     *)
(*   - the two deployed variants of the HTTP service, src/main.py (the     *)
(*     retrieval-augmented variant) and src/api/index.py (the direct       *)
(*     variant), with their get_field_health and ask_chatbot handlers;     *)
(*   - the one-shot ingestion utility src/migrate_to_pinecone.py.          *)
(*                                                                         *)
(* The external collaborators (Earth Engine, the chat model, the embedding *)
(* API, the Pinecone index) are modelled by what their client libraries do *)
(* at the calls the source makes.                                          *)
(*                                                                         *)
(* Units: NDVI in hundredths, raw soil carbon in thousandths, coordinates  *)
(* in 1e-4 degree; temperatures are exact decimals (Fixed below), the      *)
(* reported temperature is in tenths of a degree Celsius.                  *)
(***************************************************************************)
EXTENDS Integers, Sequences, FiniteSets, TLC

VARIABLES
    \* ---- process-wide state written at import time -----------------------
    variant,      \* "main" (src/main.py) or "api" (src/api/index.py)
    up,           \* the module import finished: the service serves requests
    eeReady,      \* ee.Initialize succeeded
    chatClient,   \* chatbot_chain / groq_client: "None" or "client"
    env,          \* what the deployment provides: credentials, and whether
                  \* the client constructions at import time succeed
    \* ---- get_field_health: one request in flight --------------------------
    hpc,          \* position in the handler
    hreq,         \* [lat, lon] of the request
    avail,        \* the world: does a scene exist in the window, per source
    dn,           \* the world: mean ST_B10 digital value over the field
    scene,        \* the handler's locals s2, s1, landsat
    response,     \* the handler's local response dict
    results,      \* keys of the handler's local results dict
    info,         \* ee.Dictionary(results).getInfo(), keys with a value only
    hret,         \* what the HTTP layer sends back
    hfault,       \* an upstream failure (transient, or EE not initialized) hit
    hraised,      \* an exception was raised inside the handler
    eeCalls,      \* server round trips issued by this request
    handled,      \* requests started so far
    \* ---- ask_chatbot -----------------------------------------------------
    cpc,          \* position in the handler
    creq,         \* [user_id, question] of the request
    cret,         \* what the HTTP layer sends back
    craised,      \* an exception was raised inside the handler
    sentLog,      \* every payload handed to the chat backend, in order
    asked,        \* the questions of the calls that came before
    backendCalls, \* calls issued to embedding API, vector index, chat model
    \* ---- ingestion utility -----------------------------------------------
    ipc,          \* position in main()
    ienv,         \* [key, dir, files] the run starts from
    documents,    \* the documents loaded, by kind of content
    texts,        \* number of chunks produced by the splitter
    idx,          \* the external index: [state, dim, stored, added]
    idx0,         \* the external index as the run found it
    ops,          \* index operations issued, in order, with the index state seen
    uploaded,     \* chunks upserted so far by this run
    out,          \* what was printed: subset of {"trace", "summary", ...}
    exitCode,     \* -1 while running, else the process exit status
    \* ---- requests served at the same time --------------------------------
    frames,       \* the calls of the two handlers, by request slot
    heap          \* the response and results dictionaries, by namespace

svcVars    == <<variant, up, eeReady, chatClient, env>>
healthVars == <<hpc, hreq, avail, dn, scene, response, results, info, hret, hfault,
                hraised, eeCalls, handled>>
chatVars   == <<cpc, creq, cret, craised, sentLog, asked, backendCalls>>
ingestVars == <<ipc, ienv, documents, texts, idx, idx0, ops, uploaded, out, exitCode>>
concVars   == <<frames, heap>>
vars       == <<svcVars, healthVars, chatVars, ingestVars, concVars>>

-----------------------------------------------------------------------------
(* Bounds of the model *)

MaxRequests == 2
MaxCalls == 3
MaxFiles == 2
MaxChunksPerDoc == 2
MaxStored == 1
MaxInFlight == 2

-----------------------------------------------------------------------------
(* Values *)

Null     == <<"null">>
Url(l)   == <<"url", l>>
Str(s)   == <<"str", s>>
Num(n)   == <<"num", n>>

Variants == {"main", "api"}
Sources  == {"s2", "s1", "landsat"}

\* mean NDVI samples, hundredths: both sides of every threshold and the ends
NdviValues == {-100, -20, 0, 19, 20, 21, 39, 40, 41, 59, 60, 61, 100}
\* mean thermal digital values: the fill value, a round one, a usual one
ThermalDNs == {0, 40000, 44177}
\* mean raw soil carbon samples, thousandths; 23450 / 10 is halfway between
\* two values of 2 decimals
SocValues  == {0, 23450, 23456, 150000}
\* request points, 1e-4 degree: (0, 0) and Bangalore (12.9716, 77.5946)
Points     == {<<0, 0>>, <<129716, 775946>>}

\* an exact decimal: w units of 1e-4 plus f units of 1e-8, 0 <= f < 10000
Fixed(w, f) == [w |-> w, f |-> f]

\* round(x, ndigits) of the float nearest to the decimal (n + e) / d, d even,
\* where 0 <= e < 1 and more = (e > 0).  Python rounds the binary value of
\* the float correctly: off a halfway case that is the nearest value; on a
\* decimal halfway case the float lies just below, just above or exactly on
\* it, so either neighbour can come out.
RoundOutcomes(n, d, more) ==
    LET q == n \div d
        r == n % d
    IN  IF 2 * r > d \/ (2 * r = d /\ more) THEN {q + 1}
        ELSE IF 2 * r < d THEN {q}
        ELSE {q, q + 1}

-----------------------------------------------------------------------------
(* Startup: the module-level code of the two variants *)

Envs == [eeCred : BOOLEAN, eeInitOk : BOOLEAN,
         groqKey : BOOLEAN, pineKey : BOOLEAN, chatBuildOk : BOOLEAN]

\* main.py raises at import when neither the key file nor SERVICE_ACCOUNT_JSON
\* is there; api/index.py logs a warning inside its try block and goes on.
ServiceStarts(v, e) ==
    IF v = "main" THEN e.eeCred ELSE TRUE

\* ee.Initialize is reached only with credentials; its failure is logged.
EeInitialized(v, e) ==
    e.eeCred /\ e.eeInitOk

\* chatbot_chain (main.py) needs both keys, groq_client (api/index.py) the
\* Groq key; a failing construction is logged and leaves None.
ChatClientAfterStartup(v, e) ==
    IF v = "main"
    THEN IF e.pineKey /\ e.groqKey /\ e.chatBuildOk THEN "client" ELSE "None"
    ELSE IF e.groqKey /\ e.chatBuildOk THEN "client" ELSE "None"

\* Python truthiness of a handler local: None is falsy, an ee.Image handle
\* (also one whose server-side value is null) is truthy.
Truthy(x) == x # "None"

-----------------------------------------------------------------------------
(* get_field_health *)

BoundaryOffset == 5
VeryHealthyMin == 60
HealthyMin == 40
StressedMin == 20
\* the thermal band: kelvin per digital value in 1e-8, kelvin offset and
\* kelvin-to-Celsius shift in 1e-4
ThermalScale == 341802
ThermalOffset == 1490000
KelvinShift == 2731500

EmptyDict == [k \in {} |-> 0]

HttpOk(body) == [status |-> 200, body |-> body]

\* an exception that leaves the handler: the framework answers 500
HttpServerError == [status |-> 500, body |-> [detail |-> "Internal Server Error"]]

NoReply == [status |-> 0, body |-> EmptyDict]

FieldBoundary(lat, lon) ==
    << <<lat - BoundaryOffset, lon - BoundaryOffset>>,
       <<lat + BoundaryOffset, lon - BoundaryOffset>>,
       <<lat + BoundaryOffset, lon + BoundaryOffset>>,
       <<lat - BoundaryOffset, lon + BoundaryOffset>> >>

DefaultReport(lat, lon) ==
    [health_status         |-> "Analyzing...",
     avg_temp_celsius      |-> Str("N/A"),
     soil_organic_carbon   |-> "N/A",
     ndvi_map_url          |-> Null,
     ndwi_map_url          |-> Null,
     soil_moisture_map_url |-> Null,
     lst_map_url           |-> Null,
     field_boundary        |-> FieldBoundary(lat, lon)]

ReportKeys == DOMAIN DefaultReport(0, 0)

\* the scene local of one source.  api/index.py asks the server for the
\* collection size and keeps None when it is 0; main.py keeps the handle that
\* .first() returns, which is an ee.Image object whatever the collection
\* holds: on an empty collection its server-side value is null.
FirstSceneNoSizeCheck(v, present) ==
    IF present THEN "image" ELSE "null_image"

FirstScene(v, present) ==
    IF v = "api"
    THEN IF present THEN "image" ELSE "None"
    ELSE FirstSceneNoSizeCheck(v, present)

\* does selecting the scene cost a server round trip (size().getInfo())
SelectCallsServer(v) == v = "api"

\* faulty variant: strict comparisons, a threshold value falls one label low
HealthStatusStrict(ndvi) ==
    IF ndvi > VeryHealthyMin THEN "Very Healthy"
    ELSE IF ndvi > HealthyMin THEN "Healthy"
    ELSE IF ndvi > StressedMin THEN "Stressed"
    ELSE "Very Stressed / Bare Soil"

\* the if / elif ladder on ndvi_val
HealthStatus(ndvi) ==
    IF ndvi >= VeryHealthyMin THEN "Very Healthy"
    ELSE IF ndvi >= HealthyMin THEN "Healthy"
    ELSE IF ndvi >= StressedMin THEN "Stressed"
    ELSE "Very Stressed / Bare Soil"

\* str() of a non-negative float that was rounded to 2 decimals, given in
\* hundredths: the shortest representation, at least one decimal
FormatFloat2(h) ==
    LET i == h \div 100
        f == h % 100
    IN  ToString(i) \o "." \o
        (IF f % 10 = 0 THEN ToString(f \div 10)
         ELSE IF f < 10 THEN "0" \o ToString(f)
         ELSE ToString(f))

\* faulty variant: the kelvin offset is left out
LstKelvinNoOffset(d) ==
    Fixed(d * (ThermalScale \div 10000) + (d * (ThermalScale % 10000)) \div 10000,
          (d * (ThermalScale % 10000)) % 10000)

\* select("ST_B10").multiply(0.00341802).add(149.0) on a pixel of value d;
\* the product is split so that no intermediate leaves 32 bits
LstKelvin(d) ==
    Fixed(d * (ThermalScale \div 10000) + (d * (ThermalScale % 10000)) \div 10000
            + ThermalOffset,
          (d * (ThermalScale % 10000)) % 10000)

\* lst_kelvin.subtract(273.15)
LstCelsius(k) == Fixed(k.w - KelvinShift, k.f)

\* the image the temperature reduction reads, and the image the tile layer
\* is made of
LstReducedImage == "lst_celsius"
LstTileImage == "lst_celsius"

\* the mean of a thermal image over the field, the mean digital value being
\* d: the three operations are affine, so the mean goes through them
ImageMean(image, d) ==
    CASE image = "lst_celsius" -> LstCelsius(LstKelvin(d))
      [] image = "lst_kelvin"  -> LstKelvin(d)
      [] OTHER                 -> Fixed(d * 10000, 0)

\* round(float(lst_val), 1), in tenths of a degree
TempOutcomes(x) == {Num(t) : t \in RoundOutcomes(x.w, 1000, x.f > 0)}

\* faulty variant: the raw value is not divided by 10
SocOutcomesNoDivide(v) ==
    {FormatFloat2(h) \o "%" : h \in RoundOutcomes(v, 10, FALSE)}

\* f"{round(soc_val/10.0, 2)}%"
SocOutcomes(v) ==
    {FormatFloat2(h) \o "%" : h \in RoundOutcomes(v, 100, FALSE)}

\* the tail of the handler: the three "is not None" blocks; the set of the
\* responses the two roundings can give
Finish(resp, inf) ==
    {[resp EXCEPT !.health_status =
                      IF "avg_ndvi" \in DOMAIN inf
                      THEN HealthStatus(inf["avg_ndvi"]) ELSE @,
                  !.avg_temp_celsius = t,
                  !.soil_organic_carbon = c] :
        t \in (IF "avg_lst" \in DOMAIN inf
               THEN TempOutcomes(inf["avg_lst"]) ELSE {resp.avg_temp_celsius}),
        c \in (IF "soc" \in DOMAIN inf
               THEN SocOutcomes(inf["soc"]) ELSE {resp.soil_organic_carbon})}

\* faulty variant: the error is added to the partially filled response
HandleHealthExceptionKeepPartial(resp, e) ==
    HttpOk([k \in DOMAIN resp \cup {"error"} |->
              IF k = "error" THEN "GEE Processing Error: " \o e ELSE resp[k]])

\* the handler's except clause; the partially filled response is dropped
HandleHealthException(resp, e) ==
    HttpOk([error |-> "GEE Processing Error: " \o e])

HRaise(e, upstream) ==
    /\ hret' = HandleHealthException(response, e)
    /\ hpc' = "done"
    /\ hraised' = TRUE
    /\ hfault' = (hfault \/ upstream)

HStart ==
    /\ up
    /\ hpc \in {"idle", "done"}
    /\ handled < MaxRequests
    /\ \E p \in Points, av \in [Sources -> BOOLEAN] :
          /\ hreq' = [lat |-> p[1], lon |-> p[2]]
          /\ avail' = av
    /\ dn' \in ThermalDNs
    /\ hpc' = "aoi"
    /\ handled' = handled + 1
    /\ scene' = [s \in Sources |-> "None"]
    /\ response' = EmptyDict
    /\ results' = {}
    /\ info' = EmptyDict
    /\ hret' = NoReply
    /\ hfault' = FALSE
    /\ hraised' = FALSE
    /\ eeCalls' = 0
    /\ UNCHANGED <<svcVars, chatVars, ingestVars, concVars>>

\* ee.Geometry.Point(...).buffer(50).bounds(), ee.Date(...).advance(...):
\* client-side constructions, which need an initialized library
HAoi ==
    /\ hpc = "aoi"
    /\ IF eeReady
       THEN /\ hpc' = "s2"
            /\ UNCHANGED <<hret, hraised, hfault>>
       ELSE HRaise("Earth Engine client library not initialized", TRUE)
    /\ UNCHANGED <<hreq, avail, dn, scene, response, results, info, eeCalls, handled>>
    /\ UNCHANGED <<svcVars, chatVars, ingestVars, concVars>>

AfterSelect(src) ==
    CASE src = "s2" -> "s1"
      [] src = "s1" -> "landsat"
      [] OTHER      -> "build"

HSelect(src) ==
    /\ hpc = src
    /\ \/ /\ scene' = [scene EXCEPT ![src] = FirstScene(variant, avail[src])]
          /\ eeCalls' = eeCalls + (IF SelectCallsServer(variant) THEN 1 ELSE 0)
          /\ hpc' = AfterSelect(src)
          /\ UNCHANGED <<hret, hraised, hfault>>
       \/ /\ SelectCallsServer(variant)
          /\ eeCalls' = eeCalls + 1
          /\ HRaise("upstream failure", TRUE)
          /\ UNCHANGED scene
    /\ UNCHANGED <<hreq, avail, dn, response, results, info, handled>>
    /\ UNCHANGED <<svcVars, chatVars, ingestVars, concVars>>

HBuild ==
    /\ hpc = "build"
    /\ response' = DefaultReport(hreq.lat, hreq.lon)
    /\ results' = {}
    /\ hpc' = "ndvi_tiles"
    /\ UNCHANGED <<hreq, avail, dn, scene, info, hret, hfault, hraised, eeCalls, handled>>
    /\ UNCHANGED <<svcVars, chatVars, ingestVars, concVars>>

\* faulty variant: a tile request that fails leaves the field null and the
\* handler goes on
GetMapIdSwallows(src, field, layer, next) ==
    /\ eeCalls' = eeCalls + 1
    /\ \/ /\ scene[src] = "image"
          /\ response' = [response EXCEPT ![field] = Url(layer)]
       \/ UNCHANGED response
    /\ hpc' = next
    /\ UNCHANGED <<hret, hraised, hfault>>

\* image.getMapId(...)["tile_fetcher"].url_format of a layer computed from
\* the scene of src: one server round trip, which fails on a null image
GetMapId(src, field, layer, next) ==
    /\ eeCalls' = eeCalls + 1
    /\ \/ /\ scene[src] = "image"
          /\ response' = [response EXCEPT ![field] = Url(layer)]
          /\ hpc' = next
          /\ UNCHANGED <<hret, hraised, hfault>>
       \/ /\ scene[src] = "image"
          /\ HRaise("upstream failure", TRUE)
          /\ UNCHANGED response
       \/ /\ scene[src] = "null_image"
          /\ HRaise("Parameter 'input' is required", FALSE)
          /\ UNCHANGED response

HNdviTiles ==
    /\ hpc = "ndvi_tiles"
    /\ IF Truthy(scene["s2"])
       THEN /\ results' = results \cup {"avg_ndvi"}
            /\ GetMapId("s2", "ndvi_map_url", "NDVI", "ndwi_tiles")
       ELSE /\ hpc' = "s1_tiles"
            /\ UNCHANGED <<results, response, hret, hraised, hfault, eeCalls>>
    /\ UNCHANGED <<hreq, avail, dn, scene, info, handled>>
    /\ UNCHANGED <<svcVars, chatVars, ingestVars, concVars>>

HNdwiTiles ==
    /\ hpc = "ndwi_tiles"
    /\ GetMapId("s2", "ndwi_map_url", "NDWI", "s1_tiles")
    /\ UNCHANGED <<hreq, avail, dn, scene, results, info, handled>>
    /\ UNCHANGED <<svcVars, chatVars, ingestVars, concVars>>

HRadarTiles ==
    /\ hpc = "s1_tiles"
    /\ IF Truthy(scene["s1"])
       THEN GetMapId("s1", "soil_moisture_map_url", "VV", "lst_tiles")
       ELSE /\ hpc' = "lst_tiles"
            /\ UNCHANGED <<response, hret, hraised, hfault, eeCalls>>
    /\ UNCHANGED <<hreq, avail, dn, scene, results, info, handled>>
    /\ UNCHANGED <<svcVars, chatVars, ingestVars, concVars>>

HLstTiles ==
    /\ hpc = "lst_tiles"
    /\ IF Truthy(scene["landsat"])
       THEN /\ results' = results \cup {"avg_lst"}
            /\ GetMapId("landsat", "lst_map_url", LstTileImage, "soc")
       ELSE /\ hpc' = "soc"
            /\ UNCHANGED <<results, response, hret, hraised, hfault, eeCalls>>
    /\ UNCHANGED <<hreq, avail, dn, scene, info, handled>>
    /\ UNCHANGED <<svcVars, chatVars, ingestVars, concVars>>

\* the soil-carbon reduction is added whatever the scenes are
HSoc ==
    /\ hpc = "soc"
    /\ results' = results \cup {"soc"}
    /\ hpc' = "getinfo"
    /\ UNCHANGED <<hreq, avail, dn, scene, response, info, hret, hfault, hraised,
                   eeCalls, handled>>
    /\ UNCHANGED <<svcVars, chatVars, ingestVars, concVars>>

\* ee.Dictionary(results).getInfo(): one round trip that evaluates every
\* reduction; a reduction over masked or missing data comes back null.  Every
\* image a reduction reads went through GetMapId before, so none is null here.
HGetInfo ==
    /\ hpc = "getinfo"
    /\ eeCalls' = eeCalls + 1
    /\ \/ /\ \E present \in SUBSET results :
             \E nd \in NdviValues, so \in SocValues :
                info' = [k \in present |->
                           CASE k = "avg_ndvi" -> nd
                             [] k = "avg_lst"  -> ImageMean(LstReducedImage, dn)
                             [] OTHER          -> so]
          /\ hpc' = "status"
          /\ UNCHANGED <<hret, hraised, hfault>>
       \/ /\ HRaise("upstream failure", TRUE)
          /\ UNCHANGED info
    /\ UNCHANGED <<hreq, avail, dn, scene, response, results, handled>>
    /\ UNCHANGED <<svcVars, chatVars, ingestVars, concVars>>

HReturn ==
    /\ hpc = "status"
    /\ response' \in Finish(response, info)
    /\ hret' = HttpOk(response')
    /\ hpc' = "done"
    /\ UNCHANGED <<hreq, avail, dn, scene, results, info, hfault, hraised, eeCalls, handled>>
    /\ UNCHANGED <<svcVars, chatVars, ingestVars, concVars>>

HealthNext ==
    \/ HStart
    \/ HAoi
    \/ \E src \in Sources : HSelect(src)
    \/ HBuild
    \/ HNdviTiles
    \/ HNdwiTiles
    \/ HRadarTiles
    \/ HLstTiles
    \/ HSoc
    \/ HGetInfo
    \/ HReturn

-----------------------------------------------------------------------------
(* ask_chatbot *)

Users     == {"u1", "u2"}
Questions == {"q1", "q2"}
Answers   == {"a1", "a2"}

SystemPrompt ==
    "You are an expert agricultural AI assistant named AgriXVision. ..."

UnavailableMessage(v) ==
    IF v = "main"
    THEN "Chatbot is not available. Please configure PINECONE_API_KEY and GROQ_API_KEY in .env file."
    ELSE "Chatbot is not available. Please configure GROQ_API_KEY in .env file."

ApologyMessage ==
    "I'm sorry, I encountered an error processing your question. Please try again."

DefaultAnswer == "I couldn't find a relevant answer."

\* faulty variant: the guard is missing
ChatAvailableAlways(client) == TRUE

\* the guard "if not chatbot_chain" / "if not groq_client"

ChatAvailable(client) == client # "None"

\* faulty variant: the earlier calls are handed over as history
ChatHistoryKept(prev) == prev

\* the chat_history entry handed to the retrieval chain (main.py)

ChatHistory(prev) == <<>>

\* what the handler hands to the chat backend for question q, prev being
\* the calls served before: the chain input (main.py), the messages list
\* (api/index.py)
BackendPayload(v, q, prev) ==
    IF v = "main"
    THEN [question |-> q, chat_history |-> ChatHistory(prev)]
    ELSE [messages |-> << [role |-> "system", content |-> SystemPrompt],
                          [role |-> "user", content |-> q] >>]

\* faulty variant: the exception leaves the handler
HandleChatExceptionPropagates == HttpServerError

\* the handler's except clause

HandleChatException == HttpOk([answer |-> ApologyMessage])

CRaise ==
    /\ cret' = HandleChatException
    /\ craised' = TRUE
    /\ cpc' = "done"

CStart ==
    /\ up
    /\ cpc \in {"idle", "done"}
    /\ Len(asked) + (IF cpc = "done" THEN 1 ELSE 0) < MaxCalls
    /\ \E u \in Users, q \in Questions : creq' = [user_id |-> u, question |-> q]
    /\ asked' = IF cpc = "done" THEN Append(asked, creq) ELSE asked
    /\ cpc' = "check"
    /\ cret' = NoReply
    /\ craised' = FALSE
    /\ backendCalls' = 0
    /\ UNCHANGED sentLog
    /\ UNCHANGED <<svcVars, healthVars, ingestVars, concVars>>

CCheck ==
    /\ cpc = "check"
    /\ IF ChatAvailable(chatClient)
       THEN /\ cpc' = "send"
            /\ UNCHANGED cret
       ELSE /\ cret' = HttpOk([answer |-> UnavailableMessage(variant)])
            /\ cpc' = "done"
    /\ UNCHANGED <<creq, craised, sentLog, asked, backendCalls>>
    /\ UNCHANGED <<svcVars, healthVars, ingestVars, concVars>>

\* chatbot_chain.invoke({...}) / groq_client.chat.completions.create(...):
\* the request is built from the question
CSend ==
    /\ cpc = "send"
    /\ sentLog' = Append(sentLog,
                         [question |-> creq.question,
                          before   |-> asked,
                          payload  |-> BackendPayload(variant, creq.question, asked)])
    /\ cpc' = IF variant = "main" THEN "embed" ELSE "llm"
    /\ UNCHANGED <<creq, cret, craised, asked, backendCalls>>
    /\ UNCHANGED <<svcVars, healthVars, ingestVars, concVars>>

\* one call to a backend of the retrieval chain: the embedding of the
\* question, then the top-3 query of the vector index (main.py only)
CRetrieve(at, next) ==
    /\ cpc = at
    /\ backendCalls' = backendCalls + 1
    /\ \/ /\ cpc' = next
          /\ UNCHANGED <<cret, craised>>
       \/ CRaise
    /\ UNCHANGED <<creq, sentLog, asked>>
    /\ UNCHANGED <<svcVars, healthVars, ingestVars, concVars>>

CEmbed == CRetrieve("embed", "query")

CQuery == CRetrieve("query", "llm")

\* the chat-model call, then reading the answer out of the result:
\* result.get("answer", default) (main.py), choices[0].message.content
\* (api/index.py), which raises on an empty choices list
CLlm ==
    /\ cpc = "llm"
    /\ backendCalls' = backendCalls + 1
    /\ \/ \E a \in Answers :
             /\ cret' = HttpOk([answer |-> a])
             /\ cpc' = "done"
             /\ UNCHANGED craised
       \/ /\ variant = "main"
          /\ cret' = HttpOk([answer |-> DefaultAnswer])
          /\ cpc' = "done"
          /\ UNCHANGED craised
       \/ CRaise
    /\ UNCHANGED <<creq, sentLog, asked>>
    /\ UNCHANGED <<svcVars, healthVars, ingestVars, concVars>>

ChatNext ==
    \/ CStart
    \/ CCheck
    \/ CSend
    \/ CEmbed
    \/ CQuery
    \/ CLlm

-----------------------------------------------------------------------------
(* The ingestion utility: main() of migrate_to_pinecone.py *)

EmbeddingDim == 384

\* a .txt file of the knowledge base: one whose read fails, an empty one, one
\* with text
FileKinds == {"unreadable", "empty", "text"}
FileLists == UNION {[1..n -> FileKinds] : n \in 0..MaxFiles}

\* dimensions an index found under the name may have: the embedding width,
\* and the width of the embedding API that main.py queries with
\* (voyage-large-2)
IndexDims == {EmbeddingDim, 1536}

NoIndex == [state |-> "absent", dim |-> 0, stored |-> 0, added |-> 0]

\* faulty variant: a file that cannot be read still counts as a document
LoadTextFilesKeepsAll(files) == files

\* load_text_files: a file that cannot be read is skipped with a warning
LoadTextFiles(files) ==
    LET Readable(k) == k # "unreadable"
    IN  SelectSeq(files, Readable)

RECURSIVE SumSeq(_)
SumSeq(q) == IF q = <<>> THEN 0 ELSE Head(q) + SumSeq(Tail(q))

\* split_documents: an empty document gives no chunk, a document with text
\* gives at least one
ChunkCounts(docs) ==
    {c \in [1..Len(docs) -> 0..MaxChunksPerDoc] :
        \A i \in 1..Len(docs) : (c[i] = 0) = (docs[i] = "empty")}

\* faulty variant: an existing index is always rebuilt
NeedsRecreateAlways(dim) == TRUE

\* faulty variant: an existing index is used as it is
NeedsRecreateNever(dim) == FALSE

\* the dimension check on an existing index

NeedsRecreate(dim) == dim # EmbeddingDim

\* pc.delete_index(name), called without timeout: the client polls
\* list_indexes and returns once the name is no longer listed
DeleteIndexReturns(i) == i.state = "absent"

\* faulty variant: the call returns without waiting (timeout=-1), leaving
\* the fixed sleep as the only wait
CreateIndexReturnsAtOnce(i) == TRUE

\* pc.create_index(name, ...), called without timeout: the client polls
\* describe_index and returns once the index reports ready

CreateIndexReturns(i) == i.state = "ready"

\* faulty variant: the except clause does not exit
UploadFailureFallsThrough == [ipc |-> "summary", exitCode |-> -1]

\* the except clause around the upload: message, trace, sys.exit(1)

UploadFailureExit == [ipc |-> "exited", exitCode |-> 1]

Op(name, arg) == [op |-> name, seenState |-> idx.state, seenDim |-> idx.dim, arg |-> arg]

\* sys.exit(1) after an error message
IExit1(msg) ==
    /\ out' = out \cup {msg}
    /\ exitCode' = 1
    /\ ipc' = "exited"

\* an exception nothing catches: the interpreter prints the trace, status 1
ICrash ==
    /\ out' = out \cup {"trace"}
    /\ exitCode' = 1
    /\ ipc' = "exited"

IStart ==
    /\ ipc = "start"
    /\ IF ienv.key
       THEN /\ ipc' = "load"
            /\ UNCHANGED <<out, exitCode>>
       ELSE IExit1("no_api_key")
    /\ UNCHANGED <<ienv, documents, texts, idx, idx0, ops, uploaded>>
    /\ UNCHANGED <<svcVars, healthVars, chatVars, concVars>>

ILoad ==
    /\ ipc = "load"
    /\ IF ~ienv.dir
       THEN /\ IExit1("no_directory")
            /\ UNCHANGED documents
       ELSE /\ documents' = LoadTextFiles(ienv.files)
            /\ IF documents' = <<>>
               THEN IExit1("no_documents")
               ELSE /\ ipc' = "split"
                    /\ UNCHANGED <<out, exitCode>>
    /\ UNCHANGED <<ienv, texts, idx, idx0, ops, uploaded>>
    /\ UNCHANGED <<svcVars, healthVars, chatVars, concVars>>

ISplit ==
    /\ ipc = "split"
    /\ \E c \in ChunkCounts(documents) :
          texts' = SumSeq([i \in 1..Len(documents) |-> c[i]])
    /\ ipc' = "embeddings"
    /\ UNCHANGED <<ienv, documents, idx, idx0, ops, uploaded, out, exitCode>>
    /\ UNCHANGED <<svcVars, healthVars, chatVars, concVars>>

\* HuggingFaceEmbeddings(...): loading the local model may fail
IEmbeddings ==
    /\ ipc = "embeddings"
    /\ \/ /\ ipc' = "list"
          /\ UNCHANGED <<out, exitCode>>
       \/ ICrash
    /\ UNCHANGED <<ienv, documents, texts, idx, idx0, ops, uploaded>>
    /\ UNCHANGED <<svcVars, healthVars, chatVars, concVars>>

IList ==
    /\ ipc = "list"
    /\ ops' = Append(ops, Op("list", 0))
    /\ \/ /\ ipc' = IF idx.state # "absent" THEN "describe" ELSE "create"
          /\ UNCHANGED <<out, exitCode>>
       \/ ICrash
    /\ UNCHANGED <<ienv, documents, texts, idx, idx0, uploaded>>
    /\ UNCHANGED <<svcVars, healthVars, chatVars, concVars>>

IDescribe ==
    /\ ipc = "describe"
    /\ ops' = Append(ops, Op("describe", 0))
    /\ \/ /\ ipc' = IF NeedsRecreate(idx.dim) THEN "delete" ELSE "upload"
          /\ UNCHANGED <<out, exitCode>>
       \/ ICrash
    /\ UNCHANGED <<ienv, documents, texts, idx, idx0, uploaded>>
    /\ UNCHANGED <<svcVars, healthVars, chatVars, concVars>>

\* the delete request: the index, with every vector in it, starts to go
IDeleteCall ==
    /\ ipc = "delete"
    /\ ops' = Append(ops, Op("delete", 0))
    /\ \/ /\ idx' = [idx EXCEPT !.state = "deleting", !.stored = 0, !.added = 0]
          /\ ipc' = "delete_wait"
          /\ UNCHANGED <<out, exitCode>>
       \/ /\ ICrash
          /\ UNCHANGED idx
    /\ UNCHANGED <<ienv, documents, texts, idx0, uploaded>>
    /\ UNCHANGED <<svcVars, healthVars, chatVars, concVars>>

IDeleteReturn ==
    /\ ipc = "delete_wait"
    /\ DeleteIndexReturns(idx)
    /\ ipc' = "sleep_deleted"
    /\ UNCHANGED <<ienv, documents, texts, idx, idx0, ops, uploaded, out, exitCode>>
    /\ UNCHANGED <<svcVars, healthVars, chatVars, concVars>>

\* time.sleep(10) after the deletion, time.sleep(15) after a creation
ISleep(at, next) ==
    /\ ipc = at
    /\ ipc' = next
    /\ UNCHANGED <<ienv, documents, texts, idx, idx0, ops, uploaded, out, exitCode>>
    /\ UNCHANGED <<svcVars, healthVars, chatVars, concVars>>

ISleepDeleted == ISleep("sleep_deleted", "create")

ISleepCreated == ISleep("sleep_created", "upload")

\* the create request; the service refuses a name that is still taken
ICreateCall ==
    /\ ipc = "create"
    /\ ops' = Append(ops, Op("create", EmbeddingDim))
    /\ \/ /\ idx.state = "absent"
          /\ idx' = [state |-> "provisioning", dim |-> EmbeddingDim,
                     stored |-> 0, added |-> 0]
          /\ ipc' = "create_wait"
          /\ UNCHANGED <<out, exitCode>>
       \/ /\ ICrash
          /\ UNCHANGED idx
    /\ UNCHANGED <<ienv, documents, texts, idx0, uploaded>>
    /\ UNCHANGED <<svcVars, healthVars, chatVars, concVars>>

ICreateReturn ==
    /\ ipc = "create_wait"
    /\ CreateIndexReturns(idx)
    /\ ipc' = "sleep_created"
    /\ UNCHANGED <<ienv, documents, texts, idx, idx0, ops, uploaded, out, exitCode>>
    /\ UNCHANGED <<svcVars, healthVars, chatVars, concVars>>

\* PineconeVectorStore.from_documents: the chunks are embedded and upserted
\* one after the other; an upsert into an index that is not ready, or of
\* another dimension, is refused; any exception ends in the except clause
IUpload ==
    /\ ipc = "upload"
    /\ IF uploaded = texts
       THEN /\ out' = out \cup {"uploaded_all"}
            /\ ipc' = "summary"
            /\ UNCHANGED <<idx, ops, uploaded, exitCode>>
       ELSE /\ ops' = Append(ops, Op("upsert", 0))
            /\ \/ /\ idx.state = "ready" /\ idx.dim = EmbeddingDim
                  /\ idx' = [idx EXCEPT !.added = @ + 1]
                  /\ uploaded' = uploaded + 1
                  /\ UNCHANGED <<ipc, out, exitCode>>
               \/ /\ out' = out \cup {"upload_error", "trace"}
                  /\ ipc' = UploadFailureExit.ipc
                  /\ exitCode' = UploadFailureExit.exitCode
                  /\ UNCHANGED <<idx, uploaded>>
    /\ UNCHANGED <<ienv, documents, texts, idx0>>
    /\ UNCHANGED <<svcVars, healthVars, chatVars, concVars>>

\* the "Migration Complete" summary, then the end of main(): status 0
ISummary ==
    /\ ipc = "summary"
    /\ out' = out \cup {"summary"}
    /\ exitCode' = 0
    /\ ipc' = "exited"
    /\ UNCHANGED <<ienv, documents, texts, idx, idx0, ops, uploaded>>
    /\ UNCHANGED <<svcVars, healthVars, chatVars, concVars>>

\* the index service finishes a deletion, or the provisioning of an index
IndexDeleted ==
    /\ idx.state = "deleting"
    /\ idx' = NoIndex
    /\ UNCHANGED <<ipc, ienv, documents, texts, idx0, ops, uploaded, out, exitCode>>
    /\ UNCHANGED <<svcVars, healthVars, chatVars, concVars>>

IndexProvisioned ==
    /\ idx.state = "provisioning"
    /\ idx' = [idx EXCEPT !.state = "ready"]
    /\ UNCHANGED <<ipc, ienv, documents, texts, idx0, ops, uploaded, out, exitCode>>
    /\ UNCHANGED <<svcVars, healthVars, chatVars, concVars>>

IngestNext ==
    \/ IStart
    \/ ILoad
    \/ ISplit
    \/ IEmbeddings
    \/ IList
    \/ IDescribe
    \/ IDeleteCall
    \/ IDeleteReturn
    \/ ISleepDeleted
    \/ ICreateCall
    \/ ICreateReturn
    \/ ISleepCreated
    \/ IUpload
    \/ ISummary
    \/ IndexDeleted
    \/ IndexProvisioned

-----------------------------------------------------------------------------
(* Requests in flight at the same time.  get_field_health is a plain        *)
(* function, which the framework runs on a thread of its pool; ask_chatbot  *)
(* runs on the event loop.  A call is a frame: its position, its request,   *)
(* what the upstreams will answer it, and its locals.  The two dictionaries *)
(* a call fills, response and results, are objects reached through the      *)
(* namespace that holds these names.                                        *)

InFlightIds == 1 .. MaxInFlight

\* a namespace before response and results are assigned
EmptyLocals == [response |-> EmptyDict, results |-> {}]

\* faulty variant: response and results are names of the module, one
\* namespace for every call
ModuleNamespace(r) == 0

\* the namespace that holds response and results: the locals of call r
LocalsOf(r) == r

\* field-health requests, each with what the upstreams answer it: the scenes
\* there are, whether the evaluation of the reductions fails, the three means
HealthRequests ==
    { [lat |-> 0, lon |-> 0,
       answers |-> [avail |-> [s \in Sources |-> TRUE], fail |-> FALSE,
                    ndvi |-> 61, dn |-> 44177, soc |-> 23456]],
      [lat |-> 129716, lon |-> 775946,
       answers |-> [avail |-> [s \in Sources |-> s = "s1"], fail |-> FALSE,
                    ndvi |-> 19, dn |-> 40000, soc |-> 150000]],
      [lat |-> 129716, lon |-> 775946,
       answers |-> [avail |-> [s \in Sources |-> TRUE], fail |-> TRUE,
                    ndvi |-> 40, dn |-> 40000, soc |-> 0]] }

\* what the chat backend does with one question: an answer, or an exception
ChatAnswers ==
    { [fail |-> FALSE, answer |-> "a1"],
      [fail |-> TRUE, answer |-> "a2"] }

IdleFrame ==
    [kind |-> "none", pc |-> "idle", req |-> EmptyDict,
     scene |-> [s \in Sources |-> "None"], info |-> EmptyDict,
     ret |-> NoReply]

NewHealthFrame(req) == [IdleFrame EXCEPT !.kind = "health", !.pc = "aoi", !.req = req]

NewChatFrame(req) == [IdleFrame EXCEPT !.kind = "chat", !.pc = "check", !.req = req]

InFlight(f) == f.pc \notin {"idle", "done"}

FrameRaise(f, d, e) ==
    [f |-> [f EXCEPT !.pc = "done", !.ret = HandleHealthException(d.response, e)],
     d |-> d]

\* one "if <scene>:" block: the reductions named in keys go into results,
\* then each field of layers gets the tile URL of its layer
TileBlock(f, d, src, keys, layers, next) ==
    IF ~Truthy(f.scene[src])
    THEN [f |-> [f EXCEPT !.pc = next], d |-> d]
    ELSE IF f.scene[src] = "null_image"
    THEN FrameRaise(f, [d EXCEPT !.results = @ \cup keys],
                    "Parameter 'input' is required")
    ELSE [f |-> [f EXCEPT !.pc = next],
          d |-> [response |-> [k \in DOMAIN d.response |->
                                  IF k \in DOMAIN layers
                                  THEN Url(layers[k]) ELSE d.response[k]],
                 results  |-> d.results \cup keys]]

\* one step of get_field_health in frame f, d being the namespace its
\* response and results live in
HealthStep(f, d) ==
    CASE f.pc = "aoi" ->
            IF eeReady
            THEN [f |-> [f EXCEPT !.pc = "select"], d |-> d]
            ELSE FrameRaise(f, d, "Earth Engine client library not initialized")
      [] f.pc = "select" ->
            [f |-> [f EXCEPT !.pc = "build",
                             !.scene = [s \in Sources |->
                                          FirstScene(variant, f.req.answers.avail[s])]],
             d |-> d]
      [] f.pc = "build" ->
            [f |-> [f EXCEPT !.pc = "s2"],
             d |-> [response |-> DefaultReport(f.req.lat, f.req.lon), results |-> {}]]
      [] f.pc = "s2" ->
            TileBlock(f, d, "s2", {"avg_ndvi"},
                      [ndvi_map_url |-> "NDVI", ndwi_map_url |-> "NDWI"], "s1")
      [] f.pc = "s1" ->
            TileBlock(f, d, "s1", {}, [soil_moisture_map_url |-> "VV"], "landsat")
      [] f.pc = "landsat" ->
            TileBlock(f, d, "landsat", {"avg_lst"},
                      [lst_map_url |-> LstTileImage], "soc")
      [] f.pc = "soc" ->
            [f |-> [f EXCEPT !.pc = "getinfo"],
             d |-> [d EXCEPT !.results = @ \cup {"soc"}]]
      [] f.pc = "getinfo" ->
            IF f.req.answers.fail
            THEN FrameRaise(f, d, "upstream failure")
            ELSE [f |-> [f EXCEPT !.pc = "status",
                                  !.info = [k \in d.results |->
                                     CASE k = "avg_ndvi" -> f.req.answers.ndvi
                                       [] k = "avg_lst"  ->
                                            ImageMean(LstReducedImage, f.req.answers.dn)
                                       [] OTHER          -> f.req.answers.soc]],
                  d |-> d]
      [] OTHER ->
            LET done == CHOOSE x \in Finish(d.response, f.info) : TRUE
            IN  [f |-> [f EXCEPT !.pc = "done", !.ret = HttpOk(done)],
                 d |-> [d EXCEPT !.response = done]]

\* one step of ask_chatbot in frame f; it has no dictionary of its own
ChatStep(f, d) ==
    CASE f.pc = "check" ->
            IF ChatAvailable(chatClient)
            THEN [f |-> [f EXCEPT !.pc = "llm"], d |-> d]
            ELSE [f |-> [f EXCEPT !.pc = "done",
                                  !.ret = HttpOk([answer |-> UnavailableMessage(variant)])],
                  d |-> d]
      [] OTHER ->
            IF f.req.answers.fail
            THEN [f |-> [f EXCEPT !.pc = "done", !.ret = HandleChatException], d |-> d]
            ELSE [f |-> [f EXCEPT !.pc = "done",
                                  !.ret = HttpOk([answer |-> f.req.answers.answer])],
                  d |-> d]

FrameStep(f, d) == IF f.kind = "health" THEN HealthStep(f, d) ELSE ChatStep(f, d)

\* a request arrives: a new frame, next to the calls in flight
Arrive(r, f) ==
    /\ up
    /\ ~InFlight(frames[r])
    /\ frames' = [frames EXCEPT ![r] = f]
    /\ UNCHANGED heap
    /\ UNCHANGED <<svcVars, healthVars, chatVars, ingestVars>>

HealthArrives(r) ==
    \E req \in HealthRequests : Arrive(r, NewHealthFrame(req))

ChatArrives(r) ==
    \E q \in Questions, a \in ChatAnswers :
        Arrive(r, NewChatFrame([user_id |-> "u1", question |-> q, answers |-> a]))

\* the thread, or the event loop, runs one step of call r; a namespace goes
\* away with the last call that uses it
Run(r) ==
    /\ InFlight(frames[r])
    /\ LET s == FrameStep(frames[r], heap[LocalsOf(r)])
           gone == /\ s.f.pc = "done"
                   /\ \A o \in InFlightIds \ {r} :
                         ~(InFlight(frames[o]) /\ LocalsOf(o) = LocalsOf(r))
       IN  /\ frames' = [frames EXCEPT ![r] = s.f]
           /\ heap' = [heap EXCEPT ![LocalsOf(r)] = IF gone THEN EmptyLocals ELSE s.d]
    /\ UNCHANGED <<svcVars, healthVars, chatVars, ingestVars>>

HealthRuns(r) == frames[r].kind = "health" /\ Run(r)

ChatRuns(r) == frames[r].kind = "chat" /\ Run(r)

ConcurrentNext ==
    \E r \in InFlightIds :
        \/ HealthArrives(r)
        \/ ChatArrives(r)
        \/ HealthRuns(r)
        \/ ChatRuns(r)

-----------------------------------------------------------------------------
(* Initial states *)

SvcInit(E) ==
    /\ variant \in Variants
    /\ env \in E
    /\ up = ServiceStarts(variant, env)
    /\ eeReady = EeInitialized(variant, env)
    /\ chatClient = ChatClientAfterStartup(variant, env)

HealthIdle ==
    /\ hpc = "idle"
    /\ hreq = [lat |-> 0, lon |-> 0]
    /\ avail = [s \in Sources |-> FALSE]
    /\ dn = 0
    /\ scene = [s \in Sources |-> "None"]
    /\ response = EmptyDict
    /\ results = {}
    /\ info = EmptyDict
    /\ hret = NoReply
    /\ hfault = FALSE
    /\ hraised = FALSE
    /\ eeCalls = 0
    /\ handled = 0

ChatIdle ==
    /\ cpc = "idle"
    /\ creq = [user_id |-> "u1", question |-> "q1"]
    /\ cret = NoReply
    /\ craised = FALSE
    /\ sentLog = <<>>
    /\ asked = <<>>
    /\ backendCalls = 0

IngestIdle ==
    /\ ipc = "off"
    /\ ienv = [key |-> FALSE, dir |-> FALSE, files |-> <<>>]
    /\ documents = <<>>
    /\ texts = 0
    /\ idx = NoIndex
    /\ idx0 = idx
    /\ ops = <<>>
    /\ uploaded = 0
    /\ out = {}
    /\ exitCode = -1

NoFrames ==
    /\ frames = [r \in InFlightIds |-> IdleFrame]
    /\ heap = [c \in 0 .. MaxInFlight |-> EmptyLocals]

\* deployments that differ in the satellite credentials only
HealthEnvs == {e \in Envs : ~e.groqKey /\ ~e.pineKey /\ ~e.chatBuildOk}

InitHealth == SvcInit(HealthEnvs) /\ HealthIdle /\ ChatIdle /\ IngestIdle /\ NoFrames

SpecHealth == InitHealth /\ [][HealthNext]_vars

\* deployments that differ in the chat credentials only
ChatEnvs == {e \in Envs : e.eeCred /\ e.eeInitOk}

InitChat == SvcInit(ChatEnvs) /\ HealthIdle /\ ChatIdle /\ IngestIdle /\ NoFrames

SpecChat == InitChat /\ [][ChatNext]_vars

\* the states a run of the utility may start from: the environment, the
\* knowledge-base directory, and the index found under the name
InitIngest ==
    /\ SvcInit({[eeCred |-> FALSE, eeInitOk |-> FALSE, groqKey |-> FALSE,
                 pineKey |-> FALSE, chatBuildOk |-> FALSE]})
    /\ variant = "api"
    /\ HealthIdle
    /\ ChatIdle
    /\ NoFrames
    /\ ipc = "start"
    /\ ienv \in [key : BOOLEAN, dir : BOOLEAN, files : FileLists]
    /\ documents = <<>>
    /\ texts = 0
    /\ idx \in {NoIndex} \cup
                [state : {"ready"}, dim : IndexDims, stored : 0..MaxStored, added : {0}]
    /\ idx0 = idx
    /\ ops = <<>>
    /\ uploaded = 0
    /\ out = {}
    /\ exitCode = -1

SpecIngest == InitIngest /\ [][IngestNext]_vars

\* a deployment with every credential, serving several requests at a time
ConcurrentEnvs ==
    {e \in Envs : e.eeCred /\ e.eeInitOk /\ e.groqKey /\ e.pineKey /\ e.chatBuildOk}

InitConcurrent ==
    SvcInit(ConcurrentEnvs) /\ HealthIdle /\ ChatIdle /\ IngestIdle /\ NoFrames

SpecConcurrent == InitConcurrent /\ [][ConcurrentNext]_vars

-----------------------------------------------------------------------------
(* Properties of get_field_health *)

Replied == hpc = "done"
Body == hret.body
IsReport(b) == DOMAIN b = ReportKeys
IsErrorOnly(b) == DOMAIN b = {"error"}

\* C1: a source without a scene does not abort the request: absent an
\* upstream failure the call returns a report without 'error', the missing
\* source's outputs stay at their defaults, and every source that has a scene,
\* and the soil-carbon value, is reported.
C1_MissingSourceDoesNotAbort ==
    (Replied /\ ~hfault) =>
        /\ "error" \notin DOMAIN Body
        /\ IsReport(Body)
        /\ ~avail["s2"] => /\ Body.ndvi_map_url = Null
                           /\ Body.ndwi_map_url = Null
                           /\ Body.health_status = "Analyzing..."
        /\ ~avail["s1"] => Body.soil_moisture_map_url = Null
        /\ ~avail["landsat"] => /\ Body.lst_map_url = Null
                                /\ Body.avg_temp_celsius = Str("N/A")
        /\ avail["s2"] => /\ Body.ndvi_map_url # Null
                          /\ Body.ndwi_map_url # Null
        /\ avail["s1"] => Body.soil_moisture_map_url # Null
        /\ avail["landsat"] => Body.lst_map_url # Null
        /\ ("soc" \in DOMAIN info) = (Body.soil_organic_carbon # "N/A")

\* C2: where no source has a scene, the reply is HTTP 200 without 'error',
\* with the four URL fields null and health_status still "Analyzing...".
C2_NoSceneGivesDefaultReport ==
    (Replied /\ ~hfault /\ \A s \in Sources : ~avail[s]) =>
        /\ hret.status = 200
        /\ "error" \notin DOMAIN Body
        /\ IsReport(Body)
        /\ Body.ndvi_map_url = Null
        /\ Body.ndwi_map_url = Null
        /\ Body.soil_moisture_map_url = Null
        /\ Body.lst_map_url = Null
        /\ Body.health_status = "Analyzing..."

HealthLabels ==
    {"Very Healthy", "Healthy", "Stressed", "Very Stressed / Bare Soil", "Analyzing..."}

\* C3: health_status is the threshold ladder on the mean NDVI: >= 0.6 "Very
\* Healthy", [0.4, 0.6) "Healthy", [0.2, 0.4) "Stressed", lower "Very Stressed
\* / Bare Soil", undefined "Analyzing..."; 0.6, 0.4, 0.2 and -0.2 give the four
\* labels in that order, a larger NDVI never gives a lower label, and no
\* other label appears.
C3_HealthLadder ==
    (Replied /\ IsReport(Body)) =>
        LET hs == Body.health_status
            defined == "avg_ndvi" \in DOMAIN info
            v == info["avg_ndvi"]
        IN  /\ hs \in HealthLabels
            /\ ~defined => hs = "Analyzing..."
            /\ defined =>
                 /\ (v >= 60) = (hs = "Very Healthy")
                 /\ (v >= 40 /\ v < 60) = (hs = "Healthy")
                 /\ (v >= 20 /\ v < 40) = (hs = "Stressed")
                 /\ (v < 20) = (hs = "Very Stressed / Bare Soil")
                 /\ v = 60 => hs = "Very Healthy"
                 /\ v = 40 => hs = "Healthy"
                 /\ v = 20 => hs = "Stressed"
                 /\ v = -20 => hs = "Very Stressed / Bare Soil"

\* a report whose mean NDVI sits exactly on the 0.4 threshold
C3_Witness ==
    /\ Replied
    /\ IsReport(Body)
    /\ "avg_ndvi" \in DOMAIN info
    /\ info["avg_ndvi"] = 40
    /\ Body.health_status = "Healthy"

\* C4: an exception raised by any step never reaches the HTTP layer: the
\* reply has success status and consists of the key 'error' only, without
\* report fields or partial results, and no further upstream call is made
\* for the request; every reply is a full report without 'error' or an
\* error-only payload.
C4_ErrorOnlyPayload ==
    /\ [](Replied =>
            /\ hret.status = 200
            /\ IsReport(Body) \/ IsErrorOnly(Body)
            /\ hraised = IsErrorOnly(Body)
            /\ hraised = ~IsReport(Body))
    /\ [][(hraised /\ hraised') => (eeCalls' = eeCalls /\ hret' = hret)]_vars

\* an exception after the optical tile URLs were already in the response
C4_Witness ==
    /\ Replied
    /\ hraised
    /\ IsReport(response)
    /\ response.ndvi_map_url # Null
    /\ IsErrorOnly(Body)

-----------------------------------------------------------------------------
(* Properties of ask_chatbot *)

\* the chat backend was initialized at startup: the credentials the variant
\* needs were there and the client or chain construction succeeded
ChatInitialized ==
    /\ env.groqKey
    /\ variant = "main" => env.pineKey
    /\ env.chatBuildOk

\* C5: when the chat backend was not initialized at startup, every call
\* returns the literal 'Chatbot is not available...' answer of the variant,
\* without raising and without any call to the chat model, the embedding API
\* or the vector index.
C5_UnavailableShortCircuit ==
    ~ChatInitialized =>
        /\ chatClient = "None"
        /\ backendCalls = 0
        /\ sentLog = <<>>
        /\ ~craised
        /\ cpc \in {"idle", "check", "done"}
        /\ cpc = "done" =>
             /\ cret.status = 200
             /\ cret.body = [answer |-> UnavailableMessage(variant)]

\* a call served while the keys were there but the construction had failed
C5_Witness ==
    /\ cpc = "done"
    /\ env.groqKey /\ env.pineKey /\ ~env.chatBuildOk
    /\ Len(asked) >= 1
    /\ cret.body = [answer |-> UnavailableMessage(variant)]

\* C6: with the chat backend initialized, any exception while generating an
\* answer gives the fixed apology as the answer, with success status; every
\* call ends in a response that contains an 'answer' key.
C6_ApologyOnException ==
    cpc = "done" =>
        /\ cret.status = 200
        /\ "answer" \in DOMAIN cret.body
        /\ (ChatInitialized /\ craised) => cret.body = [answer |-> ApologyMessage]

\* an exception raised by the chat-model call, after the retrieval succeeded
C6_Witness ==
    /\ cpc = "done"
    /\ ChatInitialized
    /\ craised
    /\ variant = "main"
    /\ backendCalls = 3
    /\ cret.body = [answer |-> ApologyMessage]

\* the payload built for question q when nothing came before
FreshPayload(q) ==
    IF variant = "main"
    THEN [question |-> q, chat_history |-> <<>>]
    ELSE [messages |-> << [role |-> "system", content |-> SystemPrompt],
                          [role |-> "user", content |-> q] >>]

\* C7: no history is retained between calls: whatever calls came before, by
\* whichever user, what is sent to the chat backend for a question is the
\* fixed system prompt / an empty history plus that question, so two calls
\* with the same question send the same payload.
C7_NoHistoryRetained ==
    /\ \A i \in DOMAIN sentLog : sentLog[i].payload = FreshPayload(sentLog[i].question)
    /\ \A i, j \in DOMAIN sentLog :
          sentLog[i].question = sentLog[j].question
             => sentLog[i].payload = sentLog[j].payload

\* the same question sent twice, the second time after calls by another user
\* with another question
C7_Witness ==
    \E i, j \in DOMAIN sentLog :
        /\ i < j
        /\ sentLog[i].question = sentLog[j].question
        /\ sentLog[i].before = <<>>
        /\ \E k \in DOMAIN sentLog[j].before :
              /\ sentLog[j].before[k].question # sentLog[j].question
              /\ sentLog[j].before[k].user_id # creq.user_id

-----------------------------------------------------------------------------
(* Properties of the ingestion utility *)

Upserts == {i \in DOMAIN ops : ops[i].op = "upsert"}

\* C8: an index found with a dimension other than the embedding width is
\* deleted and then recreated with dimension 384 before any vector is
\* uploaded; an index that is not there is created with dimension 384 before
\* the upload; whenever the run is at the upload step the index exists with
\* the embedding width.
C8_RecreateBeforeUpload ==
    /\ ipc = "upload" => (idx.state # "absent" /\ idx.dim = 384)
    /\ \A u \in Upserts :
          /\ ops[u].seenState # "absent"
          /\ ops[u].seenDim = 384
          /\ (idx0.state = "ready" /\ idx0.dim # 384) =>
                \E d, c \in DOMAIN ops :
                    /\ d < c /\ c < u
                    /\ ops[d].op = "delete"
                    /\ ops[c].op = "create" /\ ops[c].arg = 384
          /\ idx0.state = "absent" =>
                \E c \in DOMAIN ops :
                    c < u /\ ops[c].op = "create" /\ ops[c].arg = 384

\* a run that found an index of dimension 1536 holding a vector and went on
\* to upload into the index it recreated
C8_Witness ==
    /\ idx0.state = "ready" /\ idx0.dim = 1536 /\ idx0.stored = 1
    /\ uploaded >= 1
    /\ Upserts # {}
    /\ idx.dim = 384

\* C9: the upload starts only once the index is ready: the create request is
\* issued after the deletion has completed, and no upsert is attempted
\* against an index that is still being deleted or provisioned.
C9_UploadOnlyWhenReady ==
    /\ ipc \in {"upload", "summary"} => idx.state = "ready"
    /\ \A i \in DOMAIN ops :
          /\ ops[i].op = "upsert" => ops[i].seenState = "ready"
          /\ ops[i].op = "create" => ops[i].seenState = "absent"

\* an upsert into an index that this run deleted and created again
C9_Witness ==
    \E d, c, u \in DOMAIN ops :
        /\ d < c /\ c < u
        /\ ops[d].op = "delete"
        /\ ops[c].op = "create"
        /\ ops[u].op = "upsert" /\ ops[u].seenState = "ready"

\* C10: a failure of the upload step ends the process with a non-zero exit
\* status after a trace was printed, and the 'Migration Complete' summary is
\* not printed; the summary is printed only after every chunk was uploaded.
C10_UploadFailureAborts ==
    /\ "upload_error" \in out =>
          /\ ipc = "exited"
          /\ exitCode \notin {0, -1}
          /\ "trace" \in out
          /\ "summary" \notin out
    /\ ipc = "summary" => (uploaded = texts /\ "upload_error" \notin out)
    /\ "summary" \in out =>
          /\ uploaded = texts
          /\ "uploaded_all" \in out
          /\ "upload_error" \notin out
          /\ exitCode = 0

\* an upload that failed after a first chunk had been stored
C10_Witness ==
    /\ "upload_error" \in out
    /\ uploaded >= 1
    /\ uploaded < texts
    /\ exitCode = 1

-----------------------------------------------------------------------------
(* Numerical conventions of the report *)

\* is h hundredths a value of 2 decimals nearest to v / 10, v in thousandths
NearestHundredth(h, v) == 2 * (IF 100 * h >= v THEN 100 * h - v ELSE v - 100 * h) <= 100

\* C11: when the soil-carbon reduction yields a raw value v, the report's
\* soil_organic_carbon is the string of v / 10 rounded to 2 decimals followed
\* by '%' (raw 23.456 gives "2.35%"); when it yields no value the field stays
\* "N/A".
C11_SoilCarbonString ==
    (Replied /\ IsReport(Body)) =>
        IF "soc" \in DOMAIN info
        THEN /\ \E h \in 0 .. (info["soc"] \div 100 + 1) :
                   /\ NearestHundredth(h, info["soc"])
                   /\ Body.soil_organic_carbon = FormatFloat2(h) \o "%"
             /\ info["soc"] = 23456 => Body.soil_organic_carbon = "2.35%"
             /\ info["soc"] = 0 => Body.soil_organic_carbon = "0.0%"
             /\ info["soc"] = 150000 => Body.soil_organic_carbon = "15.0%"
        ELSE Body.soil_organic_carbon = "N/A"

\* a report of the raw value 23.456
C11_Witness ==
    /\ Replied
    /\ IsReport(Body)
    /\ "soc" \in DOMAIN info
    /\ info["soc"] = 23456
    /\ Body.soil_organic_carbon = "2.35%"

\* a report made while the reduction gave no value
C11_WitnessNoValue ==
    /\ Replied
    /\ IsReport(Body)
    /\ "soc" \notin DOMAIN info
    /\ Body.soil_organic_carbon = "N/A"

\* d * 0.00341802 + 149.0 - 273.15 worked out a second way: the product in
\* units of 1e-5 with its remainder in 1e-8, then the offset, then the shift
ClaimedCelsius(d) ==
    LET scaled == d * 341 + (d * 802) \div 1000
        rest   == (d * 802) % 1000
        kelvin == scaled + 14900000
        c      == kelvin - 27315000
    IN  Fixed(c \div 10, (c % 10) * 1000 + rest)

\* the request in flight (or just answered) found no thermal scene
NoThermalScene == hpc # "idle" /\ ~avail["landsat"]

C12_Witness ==
    /\ Replied
    /\ IsReport(Body)
    /\ "avg_lst" \in DOMAIN info
    /\ dn = 44177
    /\ info["avg_lst"] = Fixed(268478, 6954)
    /\ Body.avg_temp_celsius = Num(268)

\* the conversion of 40000 was reported
ConvertedRoundValue ==
    /\ Replied
    /\ IsReport(Body)
    /\ "avg_lst" \in DOMAIN info
    /\ dn = 40000

\* C13 as stated: the conversion applied to d = 40000 yields -136.43 degrees
\* Celsius (to 2 decimals).
C13_AsStated ==
    ConvertedRoundValue =>
        /\ info["avg_lst"].w >= -1364350
        /\ info["avg_lst"].w < -1364250

\* C13: the conversion applied to d = 40000 yields 12.5708 degrees Celsius
\* (136.7208 + 149.0 - 273.15), 12.57 to 2 decimals, reported as 12.6.
C13_ConversionOf40000 ==
    ConvertedRoundValue =>
        /\ info["avg_lst"] = Fixed(125708, 0)
        /\ Body.avg_temp_celsius = Num(126)

C13_Witness ==
    /\ ConvertedRoundValue
    /\ Body.avg_temp_celsius = Num(126)
    /\ Body.lst_map_url # Null

-----------------------------------------------------------------------------
(* Shape of a report *)

\* C18: in every report (a reply without 'error'), ndvi_map_url and
\* ndwi_map_url are both null or both non-null; health_status differs from
\* "Analyzing..." only if ndvi_map_url is non-null; avg_temp_celsius differs
\* from "N/A" only if lst_map_url is non-null; and field_boundary is the four
\* corners of the square of offset 0.0005 around the requested point.
C18_ReportInvariants ==
    (Replied /\ IsReport(Body)) =>
        /\ (Body.ndvi_map_url = Null) <=> (Body.ndwi_map_url = Null)
        /\ Body.health_status # "Analyzing..." => Body.ndvi_map_url # Null
        /\ Body.avg_temp_celsius # Str("N/A") => Body.lst_map_url # Null
        /\ Body.field_boundary =
              << <<hreq.lat - 5, hreq.lon - 5>>, <<hreq.lat + 5, hreq.lon - 5>>,
                 <<hreq.lat + 5, hreq.lon + 5>>, <<hreq.lat - 5, hreq.lon + 5>> >>

\* a report with both vegetation layers, a health label and a temperature
C18_Witness ==
    /\ Replied
    /\ IsReport(Body)
    /\ hreq = [lat |-> 129716, lon |-> 775946]
    /\ Body.ndvi_map_url # Null
    /\ Body.ndwi_map_url # Null
    /\ Body.health_status = "Healthy"
    /\ Body.avg_temp_celsius # Str("N/A")
    /\ Body.lst_map_url # Null

\* a report without vegetation layers and without a temperature
C18_WitnessDefaults ==
    /\ Replied
    /\ IsReport(Body)
    /\ Body.ndvi_map_url = Null
    /\ Body.ndwi_map_url = Null
    /\ Body.lst_map_url = Null
    /\ Body.soil_moisture_map_url # Null

-----------------------------------------------------------------------------
(* Startup *)

NotInitializedError ==
    [error |-> "GEE Processing Error: Earth Engine client library not initialized"]

\* C14: missing credentials for an upstream service at startup never stop
\* the service from starting and never make requests fail: the service
\* starts, the endpoint that depends on that upstream answers with its static
\* fallback, and the other endpoint keeps working.
C14_MissingCredentialsDegrade ==
    /\ up
    /\ Replied => hret.status = 200
    /\ cpc = "done" => cret.status = 200
    /\ (~env.eeCred /\ Replied) => Body = NotInitializedError
    /\ (~ChatInitialized /\ cpc = "done") =>
          cret.body = [answer |-> UnavailableMessage(variant)]
    /\ (EeInitialized(variant, env) /\ Replied) => Body # NotInitializedError
    /\ (ChatInitialized /\ cpc = "done") =>
          cret.body # [answer |-> UnavailableMessage(variant)]

\* the direct variant answering a field-health request without credentials
C14_WitnessDegraded ==
    /\ variant = "api"
    /\ ~env.eeCred
    /\ up
    /\ Replied
    /\ Body = NotInitializedError

-----------------------------------------------------------------------------
(* What the ingestion utility leaves alone *)

RebuildSteps ==
    {"delete", "delete_wait", "sleep_deleted", "create", "create_wait", "sleep_created"}

\* C16: when the index exists with dimension 384, it is neither deleted nor
\* created: the run goes from the dimension check straight to the upload,
\* only adds vectors, and every vector stored before the run is still in the
\* index afterwards.
C16_ExistingIndexKept ==
    (idx0.state = "ready" /\ idx0.dim = 384) =>
        /\ \A i \in DOMAIN ops : ops[i].op \in {"list", "describe", "upsert"}
        /\ ipc \notin RebuildSteps
        /\ idx.state = "ready"
        /\ idx.dim = 384
        /\ idx.stored = idx0.stored
        /\ idx.added = uploaded

\* a complete run on an index of the right dimension that held a vector
C16_Witness ==
    /\ idx0.state = "ready"
    /\ idx0.dim = 384
    /\ idx0.stored = MaxStored
    /\ "summary" \in out
    /\ uploaded >= 1
    /\ idx.stored = MaxStored
    /\ idx.added = uploaded

\* one of the three things the run needs is missing: the API key, the
\* knowledge-base directory, or a file of it that can be read
PreconditionFails ==
    \/ ~ienv.key
    \/ ~ienv.dir
    \/ \A i \in DOMAIN ienv.files : ienv.files[i] = "unreadable"

\* C17: on every precondition failure (no API key, no knowledge-base
\* directory, no document loaded, also when every file failed to read) the
\* utility exits with a non-zero status before any index operation (no list,
\* describe, delete, create or upsert), and the index is unchanged.
C17_PreconditionFailureTouchesNothing ==
    PreconditionFails =>
        /\ ops = <<>>
        /\ idx = idx0
        /\ uploaded = 0
        /\ ipc \in {"start", "load", "exited"}
        /\ ipc = "exited" =>
              /\ exitCode = 1
              /\ out \cap {"no_api_key", "no_directory", "no_documents"} # {}
              /\ "summary" \notin out

\* the exit taken when every file of the directory failed to read, next to an
\* index that holds a vector
C17_Witness ==
    /\ ipc = "exited"
    /\ ienv.key /\ ienv.dir
    /\ Len(ienv.files) >= 1
    /\ \A i \in DOMAIN ienv.files : ienv.files[i] = "unreadable"
    /\ "no_documents" \in out
    /\ exitCode = 1
    /\ idx0.state = "ready"
    /\ idx = idx0

-----------------------------------------------------------------------------
(* Requests served at the same time *)

\* the frame a call started from
InitialFrame(f) ==
    IF f.kind = "health" THEN NewHealthFrame(f.req) ELSE NewChatFrame(f.req)

\* the reply of the call in frame f, run to its end with nothing in between,
\* d being the namespace of its dictionaries
RECURSIVE RunAlone(_, _)
RunAlone(f, d) ==
    IF f.pc = "done" THEN f.ret
    ELSE LET s == FrameStep(f, d) IN RunAlone(s.f, s.d)

\* C15: requests share no mutable state: the client handles are as startup
\* left them, and for any interleaving of get_field_health and ask_chatbot
\* calls, at every point of a call the reply it is heading for (and, once it
\* returned, its reply) is the reply the request gets when run alone against
\* the same upstream answers.
C15_RequestsAreIsolated ==
    /\ \A r \in InFlightIds :
          frames[r].pc # "idle" =>
             RunAlone(frames[r], heap[LocalsOf(r)])
                = RunAlone(InitialFrame(frames[r]), EmptyLocals)
    /\ up = ServiceStarts(variant, env)
    /\ eeReady = EeInitialized(variant, env)
    /\ chatClient = ChatClientAfterStartup(variant, env)

\* a field-health call about to return its report while a chat call waits
\* for the model and another field-health call, for another point, has its
\* response half filled
C15_Witness ==
    \E a, b \in InFlightIds :
        /\ a # b
        /\ frames[a].kind = "health"
        /\ frames[a].pc = "status"
        /\ heap[a].response.ndvi_map_url # Null
        /\ frames[b].kind = "chat"
        /\ frames[b].pc = "llm"

\* two field-health calls for different points, both with a response under
\* construction, one of them one step from returning
C15_WitnessTwoReports ==
    \E a, b \in InFlightIds :
        /\ a # b
        /\ frames[a].kind = "health" /\ frames[b].kind = "health"
        /\ frames[a].pc = "status"
        /\ frames[b].pc = "landsat"
        /\ frames[a].req.lat # frames[b].req.lat
        /\ heap[a].response.field_boundary # heap[b].response.field_boundary

=============================================================================
